---------------------------- MODULE Spec2Model ----------------------------
(***************************************************************************)
(* A model of src/index.js: the UColor value class, its factories          *)
(* (constructor, fromHEX, fromRGBA), its formatters (toHEX, toRGBA) and    *)
(* its derivations (etGrayScale, getContrastColor, getPalette) with the    *)
(* two colour-space conversions rgbToHsl and hslToRgb.                     *)
(*                                                                         *)
(* Numbers.  A JavaScript number is modelled as an exact rational          *)
(* <<num, den>> in lowest terms with den > 0, and NaN as <<0, 0>>.  The    *)
(* code computes in IEEE doubles; the model computes exactly.  Every place *)
(* where the two could differ is a Math.round:                             *)
(*   - in hslToRgb the exact value of x * 255 is an integer, so the        *)
(*     double is within 1e-10 of it and rounds to it;                      *)
(*   - in toHEX, a * 255 for a = k/1000 is at distance >= 1/200 from a     *)
(*     half, or is a half the double hits exactly (k = 100, 300, .. 900);  *)
(*   - in etGrayScale the exact weighted sum is a half whenever            *)
(*     299r + 587g + 114b = 500 mod 1000 (r = 0, g = 0, b = 250 gives      *)
(*     28.5), and the double lands on either side of it: the model keeps   *)
(*     both outcomes.                                                      *)
(* Strings are sequences of one-character strings.                         *)
(***************************************************************************)
EXTENDS Integers, Sequences, FiniteSets

VARIABLES heap, log, input

vars == <<heap, log, input>>

---------------------------------------------------------------------------
(* Numbers *)

NaN == <<0, 0>>

Num(n) == <<n, 1>>

IsNaN(x) == x[2] = 0

Abs(n) == IF n < 0 THEN -n ELSE n

Min2(a, b) == IF a < b THEN a ELSE b

Max2(a, b) == IF a < b THEN b ELSE a

RECURSIVE GCD(_, _)
GCD(a, b) == IF b = 0 THEN a ELSE GCD(b, a % b)

\* n / d in lowest terms.
Norm(n, d) ==
    IF d = 0 THEN NaN
    ELSE LET g == GCD(Abs(n), Abs(d))
             s == IF d < 0 THEN -1 ELSE 1
         IN  <<s * (n \div g), Abs(d) \div g>>

\* x + y
RAdd(x, y) ==
    IF IsNaN(x) \/ IsNaN(y) THEN NaN
    ELSE LET g == GCD(x[2], y[2])
             l == (x[2] \div g) * y[2]
         IN  Norm(x[1] * (l \div x[2]) + y[1] * (l \div y[2]), l)

RNeg(x) == IF IsNaN(x) THEN NaN ELSE <<-x[1], x[2]>>

\* x - y
RSub(x, y) == RAdd(x, RNeg(y))

\* x * y
RMul(x, y) ==
    IF IsNaN(x) \/ IsNaN(y) THEN NaN
    ELSE LET g1 == GCD(Abs(x[1]), y[2])
             g2 == GCD(Abs(y[1]), x[2])
         IN  <<(x[1] \div g1) * (y[1] \div g2), (x[2] \div g2) * (y[2] \div g1)>>

\* x / y.  No divisor of the code is zero on the colours modelled (255, and
\* max - min, 2 - max - min, max + min in the branch where max # min).
RDiv(x, y) ==
    IF IsNaN(x) \/ IsNaN(y) \/ y[1] = 0 THEN NaN
    ELSE RMul(x, IF y[1] < 0 THEN <<-y[2], -y[1]>> ELSE <<y[2], y[1]>>)

\* x < y (false when either is NaN)
RLt(x, y) == ~IsNaN(x) /\ ~IsNaN(y) /\ x[1] * y[2] < y[1] * x[2]

\* x > y
RGt(x, y) == RLt(y, x)

\* Math.max over three numbers
RMax(x, y, z) ==
    LET m == IF RLt(x, y) THEN y ELSE x IN IF RLt(m, z) THEN z ELSE m

\* Math.min over three numbers
RMin(x, y, z) ==
    LET m == IF RLt(y, x) THEN y ELSE x IN IF RLt(z, m) THEN z ELSE m

\* Math.floor
Floor(x) == IF IsNaN(x) THEN NaN ELSE Num(x[1] \div x[2])

\* Math.round: the nearest integer, a half going up.
Round(x) == IF IsNaN(x) THEN NaN ELSE Num((2 * x[1] + x[2]) \div (2 * x[2]))

\* x % y for x >= 0, y > 0
RMod(x, y) == RSub(x, RMul(y, Floor(RDiv(x, y))))

IsInt(x) == x[2] = 1

---------------------------------------------------------------------------
(* Strings *)

Digits16 == <<"0", "1", "2", "3", "4", "5", "6", "7", "8", "9",
              "a", "b", "c", "d", "e", "f">>

UpperDigits16 == <<"0", "1", "2", "3", "4", "5", "6", "7", "8", "9",
                   "A", "B", "C", "D", "E", "F">>

\* The value of a digit in the given radix, -1 when it is none.
DigitValue(ch, radix) ==
    LET hit == {i \in 1..radix : Digits16[i] = ch \/ UpperDigits16[i] = ch}
    IN  IF hit = {} THEN -1 ELSE (CHOOSE i \in hit : TRUE) - 1

\* String.prototype.slice(from, to): negative indices count from the end.
slice(s, from, to) ==
    LET n == Len(s)
        f == IF from < 0 THEN Max2(n + from, 0) ELSE Min2(from, n)
        t == IF to < 0 THEN Max2(n + to, 0) ELSE Min2(to, n)
    IN  IF f >= t THEN <<>> ELSE SubSeq(s, f + 1, t)

\* String.prototype.indexOf(ch): 0-based, -1 when absent.
indexOf(s, ch) ==
    LET hit == {i \in 1..Len(s) : s[i] = ch}
    IN  IF hit = {} THEN -1
        ELSE (CHOOSE i \in hit : \A j \in hit : i <= j) - 1

IsSpace(ch) == ch \in {" ", "\t", "\n"}

\* String.prototype.trim()
trim(s) ==
    LET keep == {i \in 1..Len(s) : ~IsSpace(s[i])}
    IN  IF keep = {} THEN <<>>
        ELSE SubSeq(s, CHOOSE i \in keep : \A j \in keep : i <= j,
                       CHOOSE i \in keep : \A j \in keep : j <= i)

\* String.prototype.split(sep): the pieces between the separators.
RECURSIVE split(_, _)
split(s, sep) ==
    LET k == indexOf(s, sep)
    IN  IF k < 0 THEN <<s>>
        ELSE <<SubSeq(s, 1, k)>> \o split(SubSeq(s, k + 2, Len(s)), sep)

\* String.prototype.padStart(n, ch)
RECURSIVE padStart(_, _, _)
padStart(s, n, ch) == IF Len(s) >= n THEN s ELSE padStart(<<ch>> \o s, n, ch)

\* The digits of a natural number in the given radix.
RECURSIVE NatToString(_, _)
NatToString(n, radix) ==
    IF n < radix THEN <<Digits16[n + 1]>>
    ELSE NatToString(n \div radix, radix) \o <<Digits16[(n % radix) + 1]>>

\* The value of a string of digits in the given radix (acc is the value so far).
RECURSIVE DigitsToNat(_, _, _)
DigitsToNat(s, radix, acc) ==
    IF s = <<>> THEN acc
    ELSE DigitsToNat(Tail(s), radix, acc * radix + DigitValue(Head(s), radix))

\* The longest prefix of s made of digits of the radix.
RECURSIVE DigitPrefix(_, _)
DigitPrefix(s, radix) ==
    IF s = <<>> \/ DigitValue(Head(s), radix) < 0 THEN <<>>
    ELSE <<Head(s)>> \o DigitPrefix(Tail(s), radix)

\* parseInt(s, radix) on a string that starts with neither blanks, a sign nor
\* a 0x prefix: the digits up to the first character that is none, NaN when
\* there are none.
parseInt(s, radix) ==
    LET d == DigitPrefix(s, radix)
    IN  IF d = <<>> THEN NaN ELSE Num(DigitsToNat(d, radix, 0))

\* 10^k
RECURSIVE Pow10(_)
Pow10(k) == IF k = 0 THEN 1 ELSE 10 * Pow10(k - 1)

\* Number.prototype.toString(radix) of an integer or NaN.
toString(x, radix) ==
    IF IsNaN(x) THEN <<"N", "a", "N">>
    ELSE IF x[1] < 0 THEN <<"-">> \o NatToString(-x[1], radix)
    ELSE NatToString(x[1], radix)

\* Number.prototype.toFixed(digits) of a number >= 0: the decimal with that
\* many fraction digits nearest to x, the larger one when two are as near.
toFixed(x, digits) ==
    IF IsNaN(x) THEN <<"N", "a", "N">>
    ELSE LET n == Round(RMul(x, Num(Pow10(digits))))[1]
             whole == NatToString(n \div Pow10(digits), 10)
             frac == padStart(NatToString(n % Pow10(digits), 10), digits, "0")
         IN  IF digits = 0 THEN whole ELSE whole \o <<".">> \o frac

\* The value of an unsigned decimal literal "ddd" or "ddd.ddd" ("" and "."
\* excluded), NaN when s is none.
DecimalLiteral(s) ==
    LET k == indexOf(s, ".")
        whole == IF k < 0 THEN s ELSE SubSeq(s, 1, k)
        frac == IF k < 0 THEN <<>> ELSE SubSeq(s, k + 2, Len(s))
        ok == /\ Len(whole) + Len(frac) > 0
              /\ \A i \in 1..Len(whole) : DigitValue(whole[i], 10) >= 0
              /\ \A i \in 1..Len(frac) : DigitValue(frac[i], 10) >= 0
    IN  IF ~ok THEN NaN
        ELSE Norm(DigitsToNat(whole, 10, 0) * Pow10(Len(frac))
                  + DigitsToNat(frac, 10, 0), Pow10(Len(frac)))

\* parseFloat(s) on a string that is an unsigned decimal literal throughout.
parseFloat(s) == DecimalLiteral(trim(s))

Undefined == <<"undefined">>

\* Number(v) of an array element: undefined gives NaN, a blank string 0, an
\* unsigned decimal literal (blanks around it allowed) its value, anything
\* else modelled gives NaN.
Number(v) ==
    IF v = Undefined THEN NaN
    ELSE IF trim(v) = <<>> THEN Num(0)
    ELSE DecimalLiteral(trim(v))

\* The element of a JavaScript array at a 0-based index.
At(arr, k) == IF k < Len(arr) THEN arr[k + 1] ELSE Undefined

\* Template interpolation `${x}` of a number whose decimal expansion has at
\* most three fraction digits.
NumberToString(x) ==
    IF IsNaN(x) THEN <<"N", "a", "N">>
    ELSE LET neg == x[1] < 0
             n == Abs(x[1])
             k == CHOOSE j \in 0..3 : Pow10(j) % x[2] = 0
                      /\ \A i \in 0..3 : Pow10(i) % x[2] = 0 => j <= i
             scaled == n * (Pow10(k) \div x[2])
             whole == NatToString(scaled \div Pow10(k), 10)
             frac == padStart(NatToString(scaled % Pow10(k), 10), k, "0")
         IN  (IF neg THEN <<"-">> ELSE <<>>)
             \o (IF k = 0 THEN whole ELSE whole \o <<".">> \o frac)

---------------------------------------------------------------------------
(* The class *)

\* constructor(r, g, b, a): the four fields, stored as given.
UColor(r, g, b, a) == [r |-> r, g |-> g, b |-> b, a |-> a]

\* The default of the constructor's parameter a.
DefaultAlpha == Num(1)

\* Math.floor(Math.random() * 256) for a draw u of Math.random()
RandomChannel(u) == Floor(RMul(u, Num(256)))

\* Math.round(Math.random() * 1000) / 1000 for a draw u of Math.random()
RandomAlpha(u) == RDiv(Round(RMul(u, Num(1000))), Num(1000))

\* static random(a) with a left out: four draws of Math.random().
random(ua, ur, ug, ub) ==
    UColor(RandomChannel(ur), RandomChannel(ug), RandomChannel(ub), RandomAlpha(ua))

\* fromHEX dividing the alpha byte by 256.
fromHEXBy256(hexString) ==
    UColor(parseInt(slice(hexString, 1, 3), 16), parseInt(slice(hexString, 3, 5), 16),
           parseInt(slice(hexString, 5, 7), 16),
           IF Len(hexString) = 9
           THEN parseFloat(toFixed(RDiv(parseInt(slice(hexString, 7, 9), 16),
                                        Num(256)), 3))
           ELSE Num(1))

\* static fromHEX(hexString)
fromHEX(hexString) ==
    LET r == parseInt(slice(hexString, 1, 3), 16)
        g == parseInt(slice(hexString, 3, 5), 16)
        b == parseInt(slice(hexString, 5, 7), 16)
        a == IF Len(hexString) = 9
             THEN parseFloat(toFixed(RDiv(parseInt(slice(hexString, 7, 9), 16),
                                          Num(255)), 3))
             ELSE Num(1)
    IN  UColor(r, g, b, a)

\* The offset handed to slice in fromRGBA: found in the string as given, not
\* in the trimmed one.
ContentStart(rgbaString) == indexOf(rgbaString, "(") + 1

\* fromRGBA taking the fourth field whenever it is a number, 0 included.
fromRGBAKeepZero(rgbaString) ==
    LET rgbParts == split(slice(trim(rgbaString), ContentStart(rgbaString), -1), ",")
        a4 == Number(At(rgbParts, 3))
    IN  UColor(Number(At(rgbParts, 0)), Number(At(rgbParts, 1)),
               Number(At(rgbParts, 2)), IF ~IsNaN(a4) THEN a4 ELSE Num(1))

\* static fromRGBA(rgbaString)
fromRGBA(rgbaString) ==
    LET rgbContent == slice(trim(rgbaString), ContentStart(rgbaString), -1)
        rgbParts == split(rgbContent, ",")
        r == Number(At(rgbParts, 0))
        g == Number(At(rgbParts, 1))
        b == Number(At(rgbParts, 2))
        a4 == Number(At(rgbParts, 3))
        a == IF ~IsNaN(a4) /\ a4 # Num(0) THEN a4 ELSE Num(1)
    IN  UColor(r, g, b, a)

\* decToHex without the padding to two digits.
decToHexUnpadded(dec) == toString(dec, 16)

\* decToHex inside toHEX
decToHex(dec) == padStart(toString(dec, 16), 2, "0")

\* The alpha byte cut down instead of rounded.
AlphaByteFloor(a) == Floor(RMul(a, Num(255)))

\* The alpha byte toHEX appends.
AlphaByte(a) == Round(RMul(a, Num(255)))

\* toHEX()
toHEX(c) ==
    LET rHex == decToHex(c.r)
        gHex == decToHex(c.g)
        bHex == decToHex(c.b)
    IN  IF c.a = Num(1) THEN <<"#">> \o rHex \o gHex \o bHex
        ELSE <<"#">> \o rHex \o gHex \o bHex \o decToHex(AlphaByte(c.a))

\* toRGBA()
toRGBA(c) ==
    <<"r", "g", "b", "a", "(">> \o NumberToString(c.r) \o <<",", " ">>
    \o NumberToString(c.g) \o <<",", " ">> \o NumberToString(c.b)
    \o <<",", " ">> \o NumberToString(c.a) \o <<")">>

\* The weighted sum with a mistyped weight (0.144 for 0.114).
LumaMistyped(c) ==
    RAdd(RAdd(RMul(c.r, <<299, 1000>>), RMul(c.g, <<587, 1000>>)),
         RMul(c.b, <<144, 1000>>))

\* The weighted sum etGrayScale rounds.
Luma(c) ==
    RAdd(RAdd(RMul(c.r, <<299, 1000>>), RMul(c.g, <<587, 1000>>)),
         RMul(c.b, <<114, 1000>>))

\* What Math.round can return for the double computed in place of x: the
\* nearest integer, and either neighbour when x is exactly a half.
RoundOfDouble(x) ==
    IF ~IsNaN(x) /\ (2 * x[1]) % x[2] = 0 /\ x[1] % x[2] # 0
    THEN {Floor(x), Round(x)}
    ELSE {Round(x)}

\* etGrayScale(): the colours it can return.  The class declares the method
\* under this name: the comment that opens after the g of getGrayScale splits
\* the name in two, the g becoming a field declaration.
etGrayScale(c) == {UColor(gray, gray, gray, c.a) : gray \in RoundOfDouble(Luma(c))}

\* rgbToHsl()
rgbToHsl(c) ==
    LET r == RDiv(c.r, Num(255))
        g == RDiv(c.g, Num(255))
        b == RDiv(c.b, Num(255))
        max == RMax(r, g, b)
        min == RMin(r, g, b)
        l == RDiv(RAdd(max, min), Num(2))
        d == RSub(max, min)
        s == IF RGt(l, <<1, 2>>) THEN RDiv(d, RSub(RSub(Num(2), max), min))
             ELSE RDiv(d, RAdd(max, min))
        h6 == IF max = r
              THEN RAdd(RDiv(RSub(g, b), d), IF RLt(g, b) THEN Num(6) ELSE Num(0))
              ELSE IF max = g THEN RAdd(RDiv(RSub(b, r), d), Num(2))
              ELSE RAdd(RDiv(RSub(r, g), d), Num(4))
    IN  IF max = min THEN [h |-> Num(0), s |-> Num(0), l |-> l]
        ELSE [h |-> RMul(h6, Num(60)), s |-> s, l |-> l]

\* hueToRgb without the wrap of a negative t.
hueToRgbNoWrap(p, q, t) ==
    LET t2 == IF RGt(t, Num(1)) THEN RSub(t, Num(1)) ELSE t
    IN  IF RLt(t2, <<1, 6>>) THEN RAdd(p, RMul(RMul(RSub(q, p), Num(6)), t2))
        ELSE IF RLt(t2, <<1, 2>>) THEN q
        ELSE IF RLt(t2, <<2, 3>>)
             THEN RAdd(p, RMul(RMul(RSub(q, p), RSub(<<2, 3>>, t2)), Num(6)))
        ELSE p

\* hueToRgb(p, q, t) inside hslToRgb
hueToRgb(p, q, t) ==
    LET t1 == IF RLt(t, Num(0)) THEN RAdd(t, Num(1)) ELSE t
        t2 == IF RGt(t1, Num(1)) THEN RSub(t1, Num(1)) ELSE t1
    IN  IF RLt(t2, <<1, 6>>) THEN RAdd(p, RMul(RMul(RSub(q, p), Num(6)), t2))
        ELSE IF RLt(t2, <<1, 2>>) THEN q
        ELSE IF RLt(t2, <<2, 3>>)
             THEN RAdd(p, RMul(RMul(RSub(q, p), RSub(<<2, 3>>, t2)), Num(6)))
        ELSE p

\* The value of e under a name: Only({f(x) : x \in {e}}) is f at the value of
\* e, which is worked out once however often f uses x.
Only(S) == CHOOSE x \in S : TRUE

\* q and p of hslToRgb
HslQ(s, l) ==
    IF RLt(l, <<1, 2>>) THEN RMul(l, RAdd(Num(1), s))
    ELSE RSub(RAdd(l, s), RMul(l, s))

HslP(l, q) == RSub(RMul(Num(2), l), q)

\* hslToRgb with the hue offsets of r and b exchanged.
hslToRgbExchanged(h, s, l) ==
    IF s = Num(0)
    THEN [r |-> Round(RMul(l, Num(255))), g |-> Round(RMul(l, Num(255))),
          b |-> Round(RMul(l, Num(255)))]
    ELSE Only({[r |-> Round(RMul(hueToRgb(pq[1], pq[2], RSub(t, <<1, 3>>)), Num(255))),
                g |-> Round(RMul(hueToRgb(pq[1], pq[2], t), Num(255))),
                b |-> Round(RMul(hueToRgb(pq[1], pq[2], RAdd(t, <<1, 3>>)), Num(255)))] :
               pq \in {<<HslP(l, q), q>> : q \in {HslQ(s, l)}}, t \in {RDiv(h, Num(360))}})

\* hslToRgb(h, s, l)
hslToRgb(h, s, l) ==
    IF s = Num(0)
    THEN [r |-> Round(RMul(l, Num(255))), g |-> Round(RMul(l, Num(255))),
          b |-> Round(RMul(l, Num(255)))]
    ELSE Only({[r |-> Round(RMul(hueToRgb(pq[1], pq[2], RAdd(t, <<1, 3>>)), Num(255))),
                g |-> Round(RMul(hueToRgb(pq[1], pq[2], t), Num(255))),
                b |-> Round(RMul(hueToRgb(pq[1], pq[2], RSub(t, <<1, 3>>)), Num(255)))] :
               pq \in {<<HslP(l, q), q>> : q \in {HslQ(s, l)}}, t \in {RDiv(h, Num(360))}})

\* The hue getContrastColor and getPalette hand to hslToRgb.
ShiftHue(h, deg) == RMod(RAdd(h, Num(deg)), Num(360))

\* getContrastColor()
getContrastColor(c) ==
    Only({UColor(rgb.r, rgb.g, rgb.b, c.a) :
          rgb \in {hslToRgb(ShiftHue(hsl.h, 180), hsl.s, hsl.l) : hsl \in {rgbToHsl(c)}}})

\* getPalette with the third colour at the hue of the second.
getPaletteSameHue(c) ==
    Only({<<UColor(c2.r, c2.g, c2.b, c.a), UColor(c2.r, c2.g, c2.b, c.a)>> :
          c2 \in {hslToRgb(ShiftHue(hsl.h, 120), hsl.s, hsl.l) : hsl \in {rgbToHsl(c)}}})

\* getPalette(): the two colours it makes (the first element is the receiver).
getPalette(c) ==
    Only({<<UColor(cs[1].r, cs[1].g, cs[1].b, c.a), UColor(cs[2].r, cs[2].g, cs[2].b, c.a)>> :
          cs \in {<<hslToRgb(ShiftHue(hsl.h, 120), hsl.s, hsl.l),
                    hslToRgb(ShiftHue(hsl.h, 240), hsl.s, hsl.l)>> : hsl \in {rgbToHsl(c)}}})

---------------------------------------------------------------------------
(* Bounds and inputs *)

\* Calls made in one run.
MaxCalls == 2

\* Channel values per axis of the cube of colours the runs start from.
NumLevels == 6

\* Blanks put before and after a string handed to fromRGBA.
MaxPad == 2

Levels == {(255 * i) \div (NumLevels - 1) : i \in 0..(NumLevels - 1)}

Opaque(r, g, b) == UColor(Num(r), Num(g), Num(b), DefaultAlpha)

\* new UColor(12, 34, 27), the module's first example
ucolor1 == Opaque(12, 34, 27)

\* Colours with channels at the ends and the middle of the range, a gray, and
\* colours whose weighted sum is a half (28.5, 127.5).
EdgeColors ==
    {ucolor1, Opaque(255, 52, 0), Opaque(0, 0, 250), Opaque(250, 0, 250),
     Opaque(1, 0, 0), Opaque(254, 255, 255), Opaque(127, 128, 128),
     Opaque(77, 77, 77), Opaque(255, 0, 1), Opaque(200, 100, 99)}

CubeColors == {Opaque(r, g, b) : r \in Levels, g \in Levels, b \in Levels}

\* Every byte in every channel.
SweepColors == {Opaque(v, (v + 85) % 256, (v + 170) % 256) : v \in 0..255}

\* An alpha with three decimals: k / 1000.
Milli(k) == Norm(k, 1000)

WithAlpha(c, a) == UColor(c.r, c.g, c.b, a)

\* Colours of every three-decimal alpha.
AlphaColors == {WithAlpha(c, Milli(k)) : c \in {ucolor1, Opaque(255, 52, 0)}, k \in 0..1000}

DeriveAlphas == {Num(1), Milli(192)}

DeriveColors == {WithAlpha(c, a) : c \in CubeColors \cup EdgeColors, a \in DeriveAlphas}

NoInput == [kind |-> "none"]

HexInput(text) == [kind |-> "hex", text |-> text]

HexPair == {<<Digits16[i], Digits16[j]>> : i, j \in 1..16}

RgbDigits == {<<"f", "f", "3", "4", "0", "0">>, <<"0", "c", "2", "2", "1", "b">>,
              <<"0", "0", "0", "0", "0", "0">>, <<"f", "f", "f", "f", "f", "f">>}

\* '#RRGGBB' and '#RRGGBBAA' in lower case, every alpha byte.
HexInputs ==
    {HexInput(<<"#">> \o d) : d \in RgbDigits}
    \cup {HexInput(<<"#">> \o d \o aa) : d \in RgbDigits, aa \in HexPair}

Lit(txt, val) == [txt |-> txt, val |-> val]

ChannelLits == {Lit(<<"0">>, Num(0)), Lit(<<"1", "2">>, Num(12)),
                Lit(<<"1", "6", "1">>, Num(161)), Lit(<<"2", "5", "5">>, Num(255))}

AlphaLits == {Lit(<<"0">>, Num(0)), Lit(<<"1">>, Num(1)),
              Lit(<<"0", ".", "5">>, <<1, 2>>), Lit(<<"0", ".", "8">>, <<4, 5>>),
              Lit(<<"0", ".", "1", "9", "2">>, <<24, 125>>)}

FnNames == {<<"r", "g", "b">>, <<"r", "g", "b", "a">>}

RgbaInput(fn, fields, lead, trail) ==
    [kind |-> "rgba", fn |-> fn, fields |-> fields, lead |-> lead, trail |-> trail]

Spaces(n) == [i \in 1..n |-> " "]

RECURSIVE Join(_)
Join(fields) ==
    IF Len(fields) = 1 THEN fields[1].txt
    ELSE fields[1].txt \o <<",">> \o Join(Tail(fields))

\* The string an rgba input stands for.
Text(in) ==
    Spaces(in.lead) \o in.fn \o <<"(">> \o Join(in.fields) \o <<")">>
    \o Spaces(in.trail)

\* The same input without the blanks around it.
Bare(in) == RgbaInput(in.fn, in.fields, 0, 0)

FieldLists ==
    {<<r, g, b>> : r \in ChannelLits, g \in ChannelLits, b \in ChannelLits}
    \cup {<<r, g, b, a>> : r \in {Lit(<<"0">>, Num(0)), Lit(<<"2", "5", "5">>, Num(255))},
                           g \in ChannelLits, b \in ChannelLits, a \in AlphaLits}

RgbaInputs ==
    {RgbaInput(fn, f, lead, trail) :
        fn \in FnNames, f \in FieldLists, lead \in 0..MaxPad, trail \in 0..MaxPad}

\* '#ff340031', the string of the module's second example
ExampleHex == <<"#", "f", "f", "3", "4", "0", "0", "3", "1">>

\* The strings of the module's own examples.
ExampleInputs ==
    {HexInput(ExampleHex),
     RgbaInput(<<"r", "g", "b", "a">>,
               <<Lit(<<"2", "5", "5">>, Num(255)), Lit(<<"1", "6", "1">>, Num(161)),
                 Lit(<<"1", "2">>, Num(12)), Lit(<<"0", ".", "5">>, <<1, 2>>)>>, 0, 0),
     RgbaInput(<<"r", "g", "b">>,
               <<Lit(<<"2", "5", "5">>, Num(255)), Lit(<<"1", "6", "1">>, Num(161)),
                 Lit(<<"1", "2">>, Num(12))>>, 0, 0),
     RgbaInput(<<"r", "g", "b">>,
               <<Lit(<<"2", "5", "5">>, Num(255)), Lit(<<"1", "6", "1">>, Num(161)),
                 Lit(<<"1", "2">>, Num(12)), Lit(<<"0", ".", "8">>, <<4, 5>>)>>, 0, 0)}

\* Draws of Math.random().
RandomDraws == {Num(0), <<9996, 10000>>}

---------------------------------------------------------------------------
(* State: heap holds the UColor instances made so far (an instance is known
   by its index), log the calls made so far, input the string the caller
   holds for the static factories. *)

Call(op, self, arg, ret) == [op |-> op, self |-> self, arg |-> arg, ret |-> ret]

CanCall == Len(log) < MaxCalls

\* The heap after a call that makes the instances in made.
Allocate(h, made) == h \o made

\* The references to the instances a call has just made.
Fresh(h, n) == [k \in 1..n |-> Len(h) + k]

Returned(op) == {log[k].ret : k \in {j \in DOMAIN log : log[j].op = op}}

\* The strings the caller hands to fromHEX: its input, or what toHEX returned.
HexArgs == (IF input.kind = "hex" THEN {input.text} ELSE {}) \cup Returned("toHEX")

\* The strings the caller hands to fromRGBA: its input, or what toRGBA returned.
RgbaArgs == (IF input.kind = "rgba" THEN {Text(input)} ELSE {}) \cup Returned("toRGBA")

InitWith(colors, inputs) ==
    /\ log = <<>>
    /\ \/ heap = <<>> /\ input \in inputs
       \/ input = NoInput /\ \E c \in colors : heap = <<c>>

CallRandom ==
    /\ CanCall
    /\ \E ua, ur, ug, ub \in RandomDraws :
          /\ heap' = Allocate(heap, <<random(ua, ur, ug, ub)>>)
          /\ log' = Append(log, Call("random", 0, <<>>, Fresh(heap, 1)))
    /\ UNCHANGED input

CallFromHEX ==
    /\ CanCall
    /\ \E s \in HexArgs :
          /\ heap' = Allocate(heap, <<fromHEX(s)>>)
          /\ log' = Append(log, Call("fromHEX", 0, s, Fresh(heap, 1)))
    /\ UNCHANGED input

CallFromRGBA ==
    /\ CanCall
    /\ \E s \in RgbaArgs :
          /\ heap' = Allocate(heap, <<fromRGBA(s)>>)
          /\ log' = Append(log, Call("fromRGBA", 0, s, Fresh(heap, 1)))
    /\ UNCHANGED input

CallToHEX ==
    /\ CanCall
    /\ \E i \in DOMAIN heap :
          log' = Append(log, Call("toHEX", i, <<>>, toHEX(heap[i])))
    /\ UNCHANGED <<heap, input>>

CallToRGBA ==
    /\ CanCall
    /\ \E i \in DOMAIN heap :
          log' = Append(log, Call("toRGBA", i, <<>>, toRGBA(heap[i])))
    /\ UNCHANGED <<heap, input>>

\* A derivation that mutated its receiver and returned it.
DerivedInPlace(h, i, c) == [heap |-> [h EXCEPT ![i] = c], ret |-> <<i>>]

\* return new UColor(...) at the end of a derivation on instance i: the
\* heap and the reference returned.
Derived(h, i, c) == [heap |-> Allocate(h, <<c>>), ret |-> Fresh(h, 1)]

CallEtGrayScale ==
    /\ CanCall
    /\ \E i \in DOMAIN heap : \E c \in etGrayScale(heap[i]) :
          /\ heap' = Derived(heap, i, c).heap
          /\ log' = Append(log, Call("etGrayScale", i, <<>>, Derived(heap, i, c).ret))
    /\ UNCHANGED input

CallGetContrastColor ==
    /\ CanCall
    /\ \E i \in DOMAIN heap :
          LET d == Derived(heap, i, getContrastColor(heap[i]))
          IN  /\ heap' = d.heap
              /\ log' = Append(log, Call("getContrastColor", i, <<>>, d.ret))
    /\ UNCHANGED input

\* The array getPalette returns: the receiver, then the two instances it makes.
PaletteRefs(h, i) == <<i>> \o Fresh(h, 2)

CallGetPalette ==
    /\ CanCall
    /\ \E i \in DOMAIN heap :
          /\ heap' = Allocate(heap, getPalette(heap[i]))
          /\ log' = Append(log, Call("getPalette", i, <<>>, PaletteRefs(heap, i)))
    /\ UNCHANGED input

CallRgbToHsl ==
    /\ CanCall
    /\ \E i \in DOMAIN heap :
          log' = Append(log, Call("rgbToHsl", i, <<>>, rgbToHsl(heap[i])))
    /\ UNCHANGED <<heap, input>>

\* hslToRgb reads none of the receiver's fields; the caller hands it what
\* rgbToHsl returned.
CallHslToRgb ==
    /\ CanCall
    /\ \E i \in DOMAIN heap : \E x \in Returned("rgbToHsl") :
          log' = Append(log, Call("hslToRgb", i, x, hslToRgb(x.h, x.s, x.l)))
    /\ UNCHANGED <<heap, input>>

\* The module as a whole, from its own examples.
Init == InitWith({ucolor1}, ExampleInputs)

Next ==
    \/ CallRandom
    \/ CallFromHEX
    \/ CallFromRGBA
    \/ CallToHEX
    \/ CallToRGBA
    \/ CallEtGrayScale
    \/ CallGetContrastColor
    \/ CallGetPalette
    \/ CallRgbToHsl
    \/ CallHslToRgb

Spec == Init /\ [][Next]_vars

\* HEX strings: toHEX and fromHEX.
InitHex == InitWith(CubeColors \cup SweepColors \cup AlphaColors, HexInputs)

NextHex == CallToHEX \/ CallFromHEX

SpecHex == InitHex /\ [][NextHex]_vars

\* RGBA strings: fromRGBA and toRGBA.
InitRgba == InitWith({}, RgbaInputs)

NextRgba == CallFromRGBA \/ CallToRGBA

SpecRgba == InitRgba /\ [][NextRgba]_vars

\* The derivations.
InitDerive == InitWith(DeriveColors, {})

NextDerive == CallEtGrayScale \/ CallGetContrastColor \/ CallGetPalette

SpecDerive == InitDerive /\ [][NextDerive]_vars

---------------------------------------------------------------------------
(* Claims *)

Calls(op) == {k \in DOMAIN log : log[k].op = op}

\* The instance a call returned (the k-th of them).
Result(call, k) == heap[log[call].ret[k]]

\* The receiver of a call.
Receiver(call) == heap[log[call].self]

IsByte(x) == IsInt(x) /\ 0 <= x[1] /\ x[1] <= 255

IsByteColor(c) == IsByte(c.r) /\ IsByte(c.g) /\ IsByte(c.b)

\* |x - y| <= z
Within(x, y, z) == ~RLt(z, RSub(x, y)) /\ ~RLt(z, RSub(y, x))

\* Pairs <<i, j>>: toHEX on an instance, then fromHEX on the string returned.
HexRoundTrips ==
    {<<i, j>> \in Calls("toHEX") \X Calls("fromHEX") :
        i < j /\ log[j].arg = log[i].ret}

\* C1: for integer r, g, b in [0,255] and a = 1, fromHEX(toHEX(c)) has the
\* same r, g, b and a as c.
C1_HexRoundTripOpaque ==
    \A p \in HexRoundTrips :
        (IsByteColor(Receiver(p[1])) /\ Receiver(p[1]).a = Num(1))
            => Result(p[2], 1) = Receiver(p[1])

\* C1 witness: an opaque colour with a channel below 16 and one above has
\* gone through toHEX and fromHEX.
C1_Witness ==
    \E p \in HexRoundTrips :
        /\ Receiver(p[1]).a = Num(1)
        /\ Receiver(p[1]).r[1] < 16
        /\ Receiver(p[1]).g[1] > 15
        /\ Len(log[p[1]].ret) = 7

\* C2: for integer r, g, b in [0,255] and a in {0.000, ..., 0.999}, the alpha
\* of fromHEX(toHEX(c)) differs from c.a by at most 1/255.
C2_HexRoundTripAlpha ==
    \A p \in HexRoundTrips :
        (IsByteColor(Receiver(p[1])) /\ Receiver(p[1]).a # Num(1))
            => Within(Result(p[2], 1).a, Receiver(p[1]).a, <<1, 255>>)

\* C2 witness: a colour of alpha 0.007 has come back with another alpha.
C2_Witness ==
    \E p \in HexRoundTrips :
        /\ Receiver(p[1]).a = Milli(7)
        /\ Result(p[2], 1).a # Receiver(p[1]).a

\* Pairs <<i, j>>: fromHEX on the caller's '#RRGGBBAA', then toHEX on the
\* instance it returned.
HexStringTrips ==
    {<<i, j>> \in Calls("fromHEX") \X Calls("toHEX") :
        /\ i < j
        /\ log[j].self = log[i].ret[1]
        /\ input.kind = "hex"
        /\ log[i].arg = input.text
        /\ Len(input.text) = 9}

Twice(op) ==
    {<<i, j>> \in Calls(op) \X Calls(op) : i < j /\ log[j].self = log[i].ret[1]}

\* C4: for integer r, g, b in [0,255], getContrastColor applied twice gives
\* each of r, g, b within 1 of c's and exactly c's alpha.
C4_ContrastInvolution ==
    \A p \in Twice("getContrastColor") :
        LET c == Receiver(p[1])
            cc == Result(p[2], 1)
        IN  IsByteColor(c) =>
               /\ Within(cc.r, c.r, Num(1))
               /\ Within(cc.g, c.g, Num(1))
               /\ Within(cc.b, c.b, Num(1))
               /\ cc.a = c.a

\* C4 witness: a colour that is no gray and not opaque has had
\* getContrastColor applied twice, the first giving another colour.
C4_Witness ==
    \E p \in Twice("getContrastColor") :
        /\ Receiver(p[1]).r # Receiver(p[1]).g
        /\ Receiver(p[1]).a # Num(1)
        /\ Result(p[1], 1) # Receiver(p[1])

\* The hues of the three colours of a palette.
PaletteHues(call) == [k \in 1..3 |-> rgbToHsl(Result(call, k)).h]

\* Two hues 120 degrees apart modulo 360.
Apart120(x, y) == RMod(RAdd(RSub(x, y), Num(360)), Num(360)) \in {Num(120), Num(240)}

MutuallyApart(hues) ==
    Apart120(hues[1], hues[2]) /\ Apart120(hues[2], hues[3]) /\ Apart120(hues[1], hues[3])

IsGray(c) == c.r = c.g /\ c.g = c.b

\* C5 as stated: for every colour with integer r, g, b in [0,255], the hues
\* of the three colours of getPalette are mutually 120 degrees apart.
C5_AsClaimed ==
    \A k \in Calls("getPalette") :
        IsByteColor(Receiver(k)) => MutuallyApart(PaletteHues(k))

\* C5 amended: the hues are mutually 120 degrees apart modulo 360 when the
\* colour is no gray (not r = g = b); for a gray all three hues are 0.
C5_PaletteHues ==
    \A k \in Calls("getPalette") :
        IsByteColor(Receiver(k)) =>
            IF IsGray(Receiver(k))
            THEN PaletteHues(k) = <<Num(0), Num(0), Num(0)>>
            ELSE MutuallyApart(PaletteHues(k))

\* C5 witness: getPalette has been called on a colour that is no gray and on
\* whose hue the red-max branch adds 6 (g < b).
C5_Witness ==
    \E k \in Calls("getPalette") :
        /\ ~IsGray(Receiver(k))
        /\ RLt(Receiver(k).g, Receiver(k).b)
        /\ RLt(Receiver(k).b, Receiver(k).r)

\* Calls of fromRGBA on the caller's input string.
InputParses ==
    {k \in Calls("fromRGBA") : input.kind = "rgba" /\ log[k].arg = Text(input)}

\* C6 as stated: fromRGBA of a well-formed string with blanks added before
\* and/or after it returns the same r, g, b, a as fromRGBA of the string.
C6_AsClaimed ==
    \A k \in InputParses : Result(k, 1) = fromRGBA(Text(Bare(input)))

\* The alpha the rule of C7 gives a list of fields.
AlphaOfFields(fields) ==
    IF Len(fields) >= 4 /\ fields[4].val # Num(0) THEN fields[4].val ELSE Num(1)

\* C7: for fields r,g,b[,a] inside rgb(...) or rgba(...), the result has the
\* first three fields as r, g, b; its alpha is the fourth field when there is
\* one and it is not 0, and 1 otherwise.
C7_AlphaRule ==
    \A k \in InputParses :
        input.lead = 0 =>
            Result(k, 1) = UColor(input.fields[1].val, input.fields[2].val,
                                  input.fields[3].val, AlphaOfFields(input.fields))

\* C7 witness: rgba(0,0,0,0) has been parsed and has given alpha 1.
C7_Witness ==
    \E k \in InputParses :
        /\ input.lead = 0
        /\ input.fn = <<"r", "g", "b", "a">>
        /\ Len(input.fields) = 4
        /\ input.fields[4].val = Num(0)
        /\ Result(k, 1) = UColor(Num(0), Num(0), Num(0), Num(1))

\* A four-field rgb(...) with alpha 0.8 has been parsed and has kept it.
C7_Honoured ==
    \E k \in InputParses :
        /\ input.lead = 0
        /\ input.fn = <<"r", "g", "b">>
        /\ Result(k, 1) = UColor(Num(255), Num(161), Num(12), <<4, 5>>)

\* C8: for integer r, g, b in [0,255] and any a, the grayscale applied twice
\* gives the same r, g, b, a as applied once, where the grayscale sets
\* r = g = b = round(0.299r + 0.587g + 0.114b) and keeps a.
C8_GrayscaleIdempotent ==
    /\ \A p \in Twice("etGrayScale") :
          IsByteColor(Receiver(p[1])) => Result(p[2], 1) = Result(p[1], 1)
    /\ \A k \in Calls("etGrayScale") :
          LET c == Receiver(k)
              g == Result(k, 1)
          IN  IsByteColor(c) =>
                 /\ IsGray(g) /\ IsByte(g.r) /\ g.a = c.a
                 /\ Abs(2000 * g.r[1] - 2 * (299 * c.r[1] + 587 * c.g[1] + 114 * c.b[1]))
                       <= 1000

\* C8 witness: a colour that is no gray has been through the grayscale twice.
C8_Witness ==
    \E p \in Twice("etGrayScale") :
        ~IsGray(Receiver(p[1])) /\ Receiver(p[1]).a # Num(1)

Derivations == {"etGrayScale", "getContrastColor", "getPalette"}

\* No call changes a field of an instance there is.
FieldsKept == \A i \in DOMAIN heap : i \in DOMAIN heap' /\ heap'[i] = heap[i]

\* The call a step has made, when it made one.
Made == log' = Append(log, log'[Len(log')])

LastCall == log'[Len(log')]

\* C9 as stated: no call changes r, g, b, a of an instance, and every
\* derivation returns new instances, never the receiver.
C9_AsClaimed ==
    [][Made =>
         /\ FieldsKept
         /\ LastCall.op \in Derivations =>
               \A k \in DOMAIN LastCall.ret : LastCall.ret[k] \notin DOMAIN heap]_vars

\* C9 amended: no call changes r, g, b, a of an instance; the grayscale and
\* getContrastColor return a new instance; getPalette returns the receiver
\* itself followed by two new instances.
C9_Immutable ==
    [][Made =>
         /\ FieldsKept
         /\ LastCall.op \in {"etGrayScale", "getContrastColor"} =>
               /\ Len(LastCall.ret) = 1
               /\ LastCall.ret[1] \notin DOMAIN heap
               /\ LastCall.ret[1] \in DOMAIN heap'
         /\ LastCall.op = "getPalette" =>
               /\ Len(LastCall.ret) = 3
               /\ LastCall.ret[1] = LastCall.self
               /\ \A k \in 2..3 : LastCall.ret[k] \in DOMAIN heap' \ DOMAIN heap
               /\ LastCall.ret[2] # LastCall.ret[3]]_vars

\* C9 witness: a derivation has been called on an instance a derivation
\* returned, after which the first receiver is still there.
C9_Witness ==
    \E i, j \in DOMAIN log :
        /\ i < j
        /\ log[i].op = "getPalette"
        /\ log[j].op \in Derivations
        /\ log[j].self = log[i].ret[2]
        /\ Len(heap) >= 4

\* C10: getPalette(c) is c itself, then exactly Color(c.b, c.r, c.g, a), then
\* exactly Color(c.g, c.b, c.r, a); every channel stays an integer in [0,255].
C10_PaletteRotation ==
    \A k \in Calls("getPalette") :
        LET c == Receiver(k)
        IN  IsByteColor(c) =>
               /\ Len(log[k].ret) = 3
               /\ log[k].ret[1] = log[k].self
               /\ Result(k, 2) = UColor(c.b, c.r, c.g, c.a)
               /\ Result(k, 3) = UColor(c.g, c.b, c.r, c.a)
               /\ IsByteColor(Result(k, 2)) /\ IsByteColor(Result(k, 3))

\* C10 witness: getPalette has been called on a colour with three different
\* channels, blue the largest, and an alpha that is not 1.
C10_Witness ==
    \E k \in Calls("getPalette") :
        /\ RLt(Receiver(k).r, Receiver(k).g)
        /\ RLt(Receiver(k).g, Receiver(k).b)
        /\ Receiver(k).a # Num(1)

=============================================================================
